---- MODULE Spec2Model ----
(***************************************************************************)
(* HR-AS: role based access control over employees and departments.       *)
(* A model of the two tRPC routers (employees, departments) and of the    *)
(* relational store they read and write through Prisma.                   *)
(*                                                                         *)
(* Modelling conventions                                                   *)
(*  - a text value is the sequence of its characters, so that contains,   *)
(*    toLowerCase and trim are computed and not assumed;                   *)
(*  - a generated id (cuid) is the number of the row in creation order,   *)
(*    so createdAt order is id order; NULL is SQL null, NONE is the       *)
(*    "__none__" id the routers use to match nothing;                     *)
(*  - an optional input field is a field the input record has or has not  *)
(*    ("status" \in DOMAIN input is input.status !== undefined);          *)
(*  - a Prisma where object is a tree [k, v] evaluated by EmployeeMatches *)
(*    and DepartmentMatches against the store.                            *)
(*                                                                         *)
(* Specifications                                                          *)
(*  - Spec: any session calls any procedure, one call after the other;    *)
(*  - SpecAdmin: the administrator's mutations, several in a row;         *)
(*  - SpecEmployees: employees created by the administrator and updated   *)
(*    by the administrator or from a session linked to an employee;       *)
(*  - SpecRace: two requests of the administrator that overlap, the       *)
(*    checks of a handler and its write being separate steps.             *)
(***************************************************************************)
EXTENDS Integers, Sequences, FiniteSets, TLC

\* ---------------------------------------------------------------- bounds
MaxEmp == 4
MaxDept == 2
MaxSteps == 1
MaxAdminSteps == 3
MaxEmployeeSteps == 2
MaxRaceSteps == 3
MaxRequests == 2

\* ------------------------------------------------------------- constants
NULL == 0
NONE == -1

\* the ids rows can get, and one id of each kind that no row ever has
EmpIds == 1..MaxEmp
DeptIds == 1..MaxDept
BogusEmp == MaxEmp + 1
BogusDept == MaxDept + 1

ACTIVE == "ACTIVE"
INACTIVE == "INACTIVE"
EmployeeStatus == {ACTIVE, INACTIVE}

HRADMIN == "HRADMIN"
MANAGER == "MANAGER"
EMPLOYEE == "EMPLOYEE"
\* a role string that is none of the three (Session.user.role is a string)
AUDITOR == "AUDITOR"
Roles == {HRADMIN, MANAGER, EMPLOYEE, AUDITOR}

\* ------------------------------------------------------------------ text
Upper == <<"A","B","C","D","E","F","G","H","I","J","K","L","M",
           "N","O","P","Q","R","S","T","U","V","W","X","Y","Z">>
Lower == <<"a","b","c","d","e","f","g","h","i","j","k","l","m",
           "n","o","p","q","r","s","t","u","v","w","x","y","z">>
\* the characters of the model in code-point order
Alphabet == <<" ", "0", "1", "2", "@">> \o Upper \o Lower

CharCode(c) == CHOOSE i \in 1..Len(Alphabet) : Alphabet[i] = c

\* String.prototype.toLowerCase on one character, tabulated
LowerOf ==
  [c \in {Alphabet[i] : i \in 1..Len(Alphabet)} |->
     IF \E i \in 1..Len(Upper) : Upper[i] = c
     THEN Lower[CHOOSE i \in 1..Len(Upper) : Upper[i] = c]
     ELSE c]

LowerChar(c) == LowerOf[c]

ToLowerCase(s) == [i \in 1..Len(s) |-> LowerChar(s[i])]

RECURSIVE TrimStart(_)
TrimStart(s) ==
  IF s # <<>> /\ Head(s) = " " THEN TrimStart(Tail(s)) ELSE s

RECURSIVE TrimEnd(_)
TrimEnd(s) ==
  IF s # <<>> /\ s[Len(s)] = " " THEN TrimEnd(SubSeq(s, 1, Len(s) - 1)) ELSE s

Trim(s) == TrimEnd(TrimStart(s))

IsSubstring(sub, s) ==
  \E i \in 0..(Len(s) - Len(sub)) : SubSeq(s, i + 1, i + Len(sub)) = sub

\* Prisma { contains: sub } on the SQLite store: LIKE '%sub%', which folds
\* the case of ASCII letters
Contains(s, sub) == IsSubstring(ToLowerCase(sub), ToLowerCase(s))

\* string order of the store (BINARY collation): code points, then length
RECURSIVE StrLess(_, _)
StrLess(a, b) ==
  IF b = <<>> THEN FALSE
  ELSE IF a = <<>> THEN TRUE
  ELSE IF Head(a) = Head(b) THEN StrLess(Tail(a), Tail(b))
  ELSE CharCode(Head(a)) < CharCode(Head(b))

Range(s) == {s[i] : i \in 1..Len(s)}

\* zod z.string().email(): a local part, "@", nothing but the shape is kept
IsEmail(s) == Len(s) >= 2 /\ s[1] # "@" /\ s[Len(s)] = "@"

\* ----------------------------------------------------------------- state
VARIABLES
  employee,            \* Employee table: id -> row
  user,                \* User table (login accounts): id -> row
  department,          \* Department table: id -> row
  employeeDepartment,  \* EmployeeDepartment table: set of <<employeeId, departmentId>>
  departmentSeq,       \* number of Department rows ever created (id generator)
  resp,                \* the response of the call in flight, NoResp when none
  steps,               \* number of committing calls the run may still make
  pending              \* requests past their checks whose write is still to run

store == <<employee, user, department, employeeDepartment, departmentSeq>>
vars == <<employee, user, department, employeeDepartment, departmentSeq, resp, steps,
          pending>>

NoResp == [op |-> "none"]

\* text values of the fixtures, shortened
Manny == <<"M","a","n">>
Eve == <<"E","v","e">>
Ed == <<"E","d">>
Olly == <<"O","l">>
LnManager == <<"M","g","r">>
LnEmployee == <<"E","m","p">>
LnOps == <<"O","p","s">>
Engineering == <<"E","n","g">>
Operations == <<"O","p","s">>
HrAdminEmail == <<"h","@">>
ManagerEmail == <<"m","@">>
Employee1Email == <<"e","@">>
Employee2Email == <<"d","@">>
Employee3Email == <<"o","@">>
Tel0 == <<"0">>
Tel1 == <<"1">>
Tel2 == <<"2">>

EmptyFn == [x \in {} |-> NULL]

\* prisma/seed: one HRADMIN login account without employee, nothing else
SeedInit ==
  /\ employee = EmptyFn
  /\ user = (1 :> [email |-> HrAdminEmail, role |-> HRADMIN, employeeId |-> NULL])
  /\ department = EmptyFn
  /\ employeeDepartment = {}
  /\ departmentSeq = 0

\* scripts/dev-fixtures: two departments, a manager and three employees
FixturesInit ==
  /\ employee =
       (1 :> [firstName |-> Manny, lastName |-> LnManager, telephone |-> Tel0,
              email |-> ManagerEmail, status |-> ACTIVE, managerId |-> NULL, userId |-> 2])
       @@ (2 :> [firstName |-> Eve, lastName |-> LnEmployee, telephone |-> Tel1,
              email |-> Employee1Email, status |-> ACTIVE, managerId |-> 1, userId |-> 3])
       @@ (3 :> [firstName |-> Ed, lastName |-> LnEmployee, telephone |-> Tel1,
              email |-> Employee2Email, status |-> ACTIVE, managerId |-> 1, userId |-> 4])
       @@ (4 :> [firstName |-> Olly, lastName |-> LnOps, telephone |-> Tel2,
              email |-> Employee3Email, status |-> ACTIVE, managerId |-> NULL, userId |-> 5])
  /\ user =
       (1 :> [email |-> HrAdminEmail, role |-> HRADMIN, employeeId |-> NULL])
       @@ (2 :> [email |-> ManagerEmail, role |-> MANAGER, employeeId |-> 1])
       @@ (3 :> [email |-> Employee1Email, role |-> EMPLOYEE, employeeId |-> 2])
       @@ (4 :> [email |-> Employee2Email, role |-> EMPLOYEE, employeeId |-> 3])
       @@ (5 :> [email |-> Employee3Email, role |-> EMPLOYEE, employeeId |-> 4])
  /\ department =
       (1 :> [name |-> Engineering, status |-> ACTIVE, managerId |-> 1])
       @@ (2 :> [name |-> Operations, status |-> ACTIVE, managerId |-> NULL])
  /\ employeeDepartment = {<<2, 1>>, <<3, 1>>, <<3, 2>>, <<4, 2>>}
  /\ departmentSeq = 2

Init ==
  /\ SeedInit \/ FixturesInit
  /\ resp = NoResp
  /\ steps = MaxSteps
  /\ pending = EmptyFn

\* --------------------------------------------------------------- session
\* ctx.session.user as the routers read it: role and employeeId (a string or
\* null); protectedProcedure admits authenticated calls only
Sessions == [role : Roles, employeeId : EmpIds \cup {NULL}]

\* getSessionUser: employeeId is kept when it is a string, else null
GetSessionUser(ctx) ==
  [role |-> ctx.role,
   employeeId |-> IF ctx.employeeId # NULL THEN ctx.employeeId ELSE NULL]

IsHRAdmin(role) == role = HRADMIN
IsManager(role) == role = MANAGER
IsEmployee(role) == role = EMPLOYEE

\* mutant: managers pass as administrators
AssertHRAdminThrowsEmployeesOnly(role) == role = EMPLOYEE

\* assertHRAdmin: TRUE when it throws FORBIDDEN
AssertHRAdminThrows(role) == ~IsHRAdmin(role)

\* mutant: only a session without employee is refused
AssertSelfEmployeeThrowsNullOnly(sessionUser, employeeId) ==
  sessionUser.employeeId = NULL

\* assertSelfEmployee: TRUE when it throws FORBIDDEN
AssertSelfEmployeeThrows(sessionUser, employeeId) ==
  sessionUser.employeeId = NULL \/ sessionUser.employeeId # employeeId

\* ------------------------------------------------- Prisma where (employee)
W(k, v) == [k |-> k, v |-> v]

RECURSIVE EmployeeMatches(_, _)
EmployeeMatches(w, e) ==
  CASE w.k = "all" -> TRUE
    [] w.k = "id" -> e = w.v
    [] w.k = "managerId" -> employee[e].managerId = w.v
    [] w.k = "departmentIdIn" ->
         \E d \in w.v : <<e, d>> \in employeeDepartment
    [] w.k = "departmentManagerId" ->
         \E d \in DOMAIN department :
           <<e, d>> \in employeeDepartment /\ department[d].managerId = w.v
    [] w.k = "firstNameContains" -> Contains(employee[e].firstName, w.v)
    [] w.k = "lastNameContains" -> Contains(employee[e].lastName, w.v)
    [] w.k = "emailContains" -> Contains(employee[e].email, w.v)
    [] w.k = "statusIn" -> employee[e].status \in w.v
    [] w.k = "OR" -> \E i \in 1..Len(w.v) : EmployeeMatches(w.v[i], e)
    [] w.k = "AND" -> \A i \in 1..Len(w.v) : EmployeeMatches(w.v[i], e)

\* mutant: an EMPLOYEE session without employeeId is left unrestricted
EmployeeSelfWhereOpen(sessionUser) ==
  IF sessionUser.employeeId = NULL
  THEN W("all", {})
  ELSE W("id", sessionUser.employeeId)

\* buildAccessWhere, the EMPLOYEE branch: self only
EmployeeSelfWhere(sessionUser) ==
  IF sessionUser.employeeId = NULL
  THEN W("id", NONE)
  ELSE W("id", sessionUser.employeeId)

\* mutant: self and the members of managed departments, without direct reports
ManagerWhereNoReports(sessionUser) ==
  LET deptIds == {d \in DOMAIN department :
                    department[d].managerId = sessionUser.employeeId}
  IN W("OR", <<W("id", sessionUser.employeeId),
               W("departmentIdIn", deptIds)>>)

\* buildAccessWhere, the MANAGER branch: self, direct reports and the members
\* of the departments found by db.department.findMany({ managerId })
ManagerWhere(sessionUser) ==
  LET deptIds == {d \in DOMAIN department :
                    department[d].managerId = sessionUser.employeeId}
  IN W("OR", <<W("id", sessionUser.employeeId),
               W("managerId", sessionUser.employeeId)>>
             \o (IF deptIds # {}
                 THEN <<W("departmentIdIn", deptIds)>>
                 ELSE <<>>))

\* buildAccessWhere of the employees router
EmployeesBuildAccessWhere(ctx) ==
  LET sessionUser == GetSessionUser(ctx)
  IN IF IsEmployee(sessionUser.role) THEN EmployeeSelfWhere(sessionUser)
     ELSE IF IsManager(sessionUser.role) /\ sessionUser.employeeId # NULL
     THEN ManagerWhere(sessionUser)
     ELSE W("all", {})

Has(r, f) == f \in DOMAIN r

\* an optional object that was not sent (filters, sort)
Undefined == [undefined |-> TRUE]

\* applyFilters of the employees router: the clauses pushed on "and"
EmployeesFilterClauses(filters) ==
  (IF Has(filters, "firstName") /\ filters.firstName # <<>>
   THEN <<W("firstNameContains", filters.firstName)>> ELSE <<>>)
  \o (IF Has(filters, "lastName") /\ filters.lastName # <<>>
      THEN <<W("lastNameContains", filters.lastName)>> ELSE <<>>)
  \o (IF Has(filters, "email") /\ filters.email # <<>>
      THEN <<W("emailContains", filters.email)>> ELSE <<>>)
  \o (IF Has(filters, "status") /\ Len(filters.status) > 0
      THEN <<W("statusIn", Range(filters.status))>> ELSE <<>>)
  \o (IF Has(filters, "departmentIds") /\ Len(filters.departmentIds) > 0
      THEN <<W("departmentIdIn", Range(filters.departmentIds))>> ELSE <<>>)
  \o (IF Has(filters, "managerId") /\ filters.managerId # NULL
      THEN <<W("OR", <<W("managerId", filters.managerId),
                       W("departmentManagerId", filters.managerId)>>)>>
      ELSE <<>>)

\* mutant: the filter clauses take the place of the scope
EmployeesApplyFiltersUnscoped(baseWhere, filters) ==
  IF filters = Undefined THEN baseWhere
  ELSE IF Len(EmployeesFilterClauses(filters)) = 0 THEN baseWhere
  ELSE W("AND", EmployeesFilterClauses(filters))

\* applyFilters of the employees router
EmployeesApplyFilters(baseWhere, filters) ==
  IF filters = Undefined THEN baseWhere
  ELSE IF Len(EmployeesFilterClauses(filters)) = 0 THEN baseWhere
  ELSE W("AND", <<baseWhere>> \o EmployeesFilterClauses(filters))

\* buildOrderBy of the employees router
EmployeesBuildOrderBy(sort) ==
  IF sort # Undefined THEN <<sort>>
  ELSE <<[field |-> "lastName", direction |-> "asc"],
         [field |-> "firstName", direction |-> "asc"]>>

StatusLess(a, b) == a = ACTIVE /\ b = INACTIVE

\* column order of two Employee rows
EmployeeFieldLess(field, a, b) ==
  CASE field = "firstName" -> StrLess(employee[a].firstName, employee[b].firstName)
    [] field = "lastName" -> StrLess(employee[a].lastName, employee[b].lastName)
    [] field = "email" -> StrLess(employee[a].email, employee[b].email)
    [] field = "status" -> StatusLess(employee[a].status, employee[b].status)
    [] field = "createdAt" -> a < b

\* column order of two Department rows
DepartmentFieldLess(field, a, b) ==
  CASE field = "name" -> StrLess(department[a].name, department[b].name)
    [] field = "status" -> StatusLess(department[a].status, department[b].status)
    [] field = "createdAt" -> a < b

\* column order of two rows of a table
FieldLess(table, field, a, b) ==
  IF table = "employee" THEN EmployeeFieldLess(field, a, b)
  ELSE DepartmentFieldLess(field, a, b)

\* row a must come before row b under orderBy, compared key by key
RECURSIVE Before(_, _, _, _)
Before(table, orderBy, a, b) ==
  IF orderBy = <<>> THEN FALSE
  ELSE LET o == Head(orderBy)
           lt == IF o.direction = "asc" THEN FieldLess(table, o.field, a, b)
                 ELSE FieldLess(table, o.field, b, a)
           gt == IF o.direction = "asc" THEN FieldLess(table, o.field, b, a)
                 ELSE FieldLess(table, o.field, a, b)
       IN lt \/ (~gt /\ Before(table, Tail(orderBy), a, b))

\* the orders findMany may return the rows S of a table in: every arrangement
\* that respects orderBy (the store leaves the order of ties open)
RECURSIVE Orderings(_, _, _)
Orderings(table, S, orderBy) ==
  IF S = {} THEN {<<>>}
  ELSE UNION { { <<m>> \o rest : rest \in Orderings(table, S \ {m}, orderBy) } :
               m \in {x \in S : \A y \in S : ~Before(table, orderBy, y, x)} }

\* db.employee.findMany({ where }) as a set of ids
EmployeeFindMany(where) == {e \in DOMAIN employee : EmployeeMatches(where, e)}

InputFilters(input) == IF Has(input, "filters") THEN input.filters ELSE Undefined
InputSort(input) == IF Has(input, "sort") THEN input.sort ELSE Undefined

\* the rows employees.list selects, before ordering
EmployeesListWhere(ctx, input) ==
  EmployeesApplyFilters(EmployeesBuildAccessWhere(ctx), InputFilters(input))

Respond(op, ctx, input, code, rows) ==
  [op |-> op, session |-> ctx, input |-> input, code |-> code, rows |-> rows]

\* ------------------------------------------------------- request inputs
\* filter objects a caller sends to employees.list
EmployeeFilters ==
  { [x \in {} |-> NULL],
    [firstName |-> <<"e">>],
    [lastName |-> <<"M","P">>, email |-> <<>>],
    [email |-> <<"@">>, status |-> <<>>],
    [status |-> <<INACTIVE>>],
    [status |-> <<ACTIVE>>, departmentIds |-> <<2>>],
    [departmentIds |-> <<1, 2>>],
    [managerId |-> 1] }

EmployeeSorts ==
  { [field |-> "email", direction |-> "desc"],
    [field |-> "status", direction |-> "asc"] }

\* the table of the employees page sends page and pageSize with the sort;
\* listInputSchema has no such keys and z.object drops them
EmployeeListInputs ==
  { [x \in {} |-> NULL] }
  \cup { [filters |-> f] : f \in EmployeeFilters }
  \cup { [sort |-> o] : o \in EmployeeSorts }
  \cup { [filters |-> [managerId |-> 1], sort |-> [field |-> "createdAt", direction |-> "desc"]] }
  \cup { [sort |-> [field |-> "lastName", direction |-> "asc"], page |-> p, pageSize |-> 2] :
          p \in 1..2 }

\* ------------------------------------------------------ employees router
\* employees.list
EmployeesList(ctx, input) ==
  /\ resp = NoResp
  /\ UNCHANGED pending
  /\ LET baseWhere == EmployeesBuildAccessWhere(ctx)
         where == EmployeesApplyFilters(baseWhere, InputFilters(input))
         orderBy == EmployeesBuildOrderBy(InputSort(input))
     IN \E rows \in Orderings("employee", EmployeeFindMany(where), orderBy) :
          resp' = Respond("employees.list", ctx, input, "OK", rows)
  /\ UNCHANGED <<store, steps>>

\* mutant: membership of any department passes, whoever manages it
AssertManagerCanAccessEmployeeAnyDept(ctx, targetEmployeeId) ==
  LET sessionUser == GetSessionUser(ctx)
  IN IF sessionUser.employeeId = NULL THEN "FORBIDDEN"
     ELSE IF targetEmployeeId \notin DOMAIN employee THEN "NOT_FOUND"
     ELSE IF \E d \in DOMAIN department : <<targetEmployeeId, d>> \in employeeDepartment
          THEN "OK"
          ELSE "FORBIDDEN"

\* assertManagerCanAccessEmployee: the code it throws, "OK" when it returns
AssertManagerCanAccessEmployee(ctx, targetEmployeeId) ==
  LET sessionUser == GetSessionUser(ctx)
  IN IF sessionUser.employeeId = NULL THEN "FORBIDDEN"
     ELSE IF targetEmployeeId \notin DOMAIN employee THEN "NOT_FOUND"
     ELSE IF \E d \in DOMAIN department :
               /\ <<targetEmployeeId, d>> \in employeeDepartment
               /\ department[d].managerId = sessionUser.employeeId
          THEN "OK"
          ELSE "FORBIDDEN"

\* mutant: the row is looked up before the role checks
EmployeesGetByIdCodeLookupFirst(ctx, input) ==
  LET sessionUser == GetSessionUser(ctx)
  IN IF input.id \notin DOMAIN employee THEN "NOT_FOUND"
     ELSE IF IsEmployee(sessionUser.role) /\ AssertSelfEmployeeThrows(sessionUser, input.id)
     THEN "FORBIDDEN"
     ELSE IF /\ IsManager(sessionUser.role)
             /\ sessionUser.employeeId # NULL
             /\ input.id # sessionUser.employeeId
          THEN AssertManagerCanAccessEmployee(ctx, input.id)
     ELSE "OK"

\* employees.getById: the outcome code
EmployeesGetByIdCode(ctx, input) ==
  LET sessionUser == GetSessionUser(ctx)
      manager ==
        IF /\ IsManager(sessionUser.role)
           /\ sessionUser.employeeId # NULL
           /\ input.id # sessionUser.employeeId
        THEN AssertManagerCanAccessEmployee(ctx, input.id)
        ELSE "OK"
  IN IF IsEmployee(sessionUser.role) /\ AssertSelfEmployeeThrows(sessionUser, input.id)
     THEN "FORBIDDEN"
     ELSE IF manager # "OK" THEN manager
     ELSE IF input.id \notin DOMAIN employee THEN "NOT_FOUND"
     ELSE "OK"

\* employees.getById
EmployeesGetById(ctx, input) ==
  /\ resp = NoResp
  /\ UNCHANGED pending
  /\ LET code == EmployeesGetByIdCode(ctx, input)
     IN resp' = Respond("employees.getById", ctx, input, code,
                        IF code = "OK" THEN <<input.id>> ELSE <<>>)
  /\ UNCHANGED <<store, steps>>

\* -------------------------------------------------- employees mutations
\* process.env.DEFAULT_PASSWORD of the deployment
DefaultPassword == <<"P">>

NonEmpty(input, f) == Has(input, f) => Len(input[f]) >= 1

\* zod createInputSchema (employees)
EmployeesCreateInputValid(input) ==
  /\ Len(input.firstName) >= 1
  /\ Len(input.lastName) >= 1
  /\ Len(input.telephone) >= 1
  /\ IsEmail(input.email)
  /\ Has(input, "status") => input.status \in EmployeeStatus

\* zod updateInputSchema (employees)
EmployeesUpdateInputValid(input) ==
  /\ NonEmpty(input, "firstName")
  /\ NonEmpty(input, "lastName")
  /\ NonEmpty(input, "telephone")
  /\ Has(input, "email") => IsEmail(input.email)
  /\ Has(input, "status") => input.status \in EmployeeStatus

\* mutant: only the Employee table is asked
EmailTakenByEmployee(email) ==
  \E e \in DOMAIN employee : employee[e].email = email

\* db.employee.findUnique({ where: { email } }) / db.user.findUnique: found
EmailTaken(email) ==
  \/ \E e \in DOMAIN employee : employee[e].email = email
  \/ \E u \in DOMAIN user : user[u].email = email

\* mutant: every id sent is taken to resolve
DepartmentCountAssumed(departmentIds) == Len(departmentIds)

\* db.department.count({ where: { id: { in: departmentIds } } })
DepartmentCount(departmentIds) ==
  Cardinality({d \in DOMAIN department : d \in Range(departmentIds)})

\* Employee_managerId_fkey: the reference resolves or is null
ManagerFkOk(managerId) == managerId = NULL \/ managerId \in DOMAIN employee

NextEmployeeId == Cardinality(DOMAIN employee) + 1
NextUserId == Cardinality(DOMAIN user) + 1

\* employees.create: the outcome code
EmployeesCreateCode(ctx, input) ==
  LET sessionUser == GetSessionUser(ctx)
      email == ToLowerCase(input.email)
      managerId == IF Has(input, "managerId") THEN input.managerId ELSE NULL
  IN IF ~EmployeesCreateInputValid(input) THEN "BAD_REQUEST"
     ELSE IF AssertHRAdminThrows(sessionUser.role) THEN "FORBIDDEN"
     ELSE IF EmailTaken(email) THEN "CONFLICT"
     ELSE IF /\ Has(input, "departmentIds")
             /\ Len(input.departmentIds) > 0
             /\ DepartmentCount(input.departmentIds) # Len(input.departmentIds)
          THEN "BAD_REQUEST"
     ELSE IF DefaultPassword = <<>> THEN "INTERNAL_SERVER_ERROR"
     \* inside $transaction: a constraint failure rolls everything back
     ELSE IF ~ManagerFkOk(managerId) THEN "INTERNAL_SERVER_ERROR"
     ELSE "OK"

\* mutant: the account is created but "link user to employee" is left out
CreatedUserUnlinked(email, eid) ==
  [email |-> email, role |-> EMPLOYEE, employeeId |-> NULL]

\* the User row the transaction of employees.create leaves: tx.user.create
\* followed by tx.user.update({ employeeId })
CreatedUser(email, eid) ==
  [email |-> email, role |-> EMPLOYEE, employeeId |-> eid]

\* employees.create; txOk is FALSE when the store fails a statement of the
\* $transaction, which then rolls back as a whole
EmployeesCreate(ctx, input, txOk) ==
  /\ resp = NoResp
  /\ UNCHANGED pending
  /\ LET checks == EmployeesCreateCode(ctx, input)
         code == IF checks = "OK" /\ ~txOk THEN "INTERNAL_SERVER_ERROR" ELSE checks
         email == ToLowerCase(input.email)
         uid == NextUserId
         eid == NextEmployeeId
     IN IF code = "OK"
        THEN /\ steps > 0
             /\ eid \in EmpIds
             /\ user' = user @@ (uid :> CreatedUser(email, eid))
             /\ employee' = employee @@
                  (eid :> [firstName |-> input.firstName,
                           lastName |-> input.lastName,
                           telephone |-> input.telephone,
                           email |-> email,
                           status |-> IF Has(input, "status") THEN input.status ELSE ACTIVE,
                           managerId |-> IF Has(input, "managerId")
                                         THEN input.managerId ELSE NULL,
                           userId |-> uid])
             /\ employeeDepartment' = employeeDepartment \cup
                  (IF Has(input, "departmentIds")
                   THEN {<<eid, d>> : d \in Range(input.departmentIds)}
                   ELSE {})
             /\ steps' = steps - 1
             /\ resp' = Respond("employees.create", ctx, input, code, <<eid>>)
             /\ UNCHANGED <<department, departmentSeq>>
        ELSE /\ resp' = Respond("employees.create", ctx, input, code, <<>>)
             /\ UNCHANGED <<store, steps>>

\* mutant: the email is taken as it was sent
NextEmailAsSent(input) ==
  IF Has(input, "email") THEN input.email ELSE Undefined

\* input.email?.toLowerCase(): Undefined when the field was not sent
NextEmail(input) ==
  IF Has(input, "email") THEN ToLowerCase(input.email) ELSE Undefined

\* mutant: the managerId check is missing
EmployeesUpdateForbiddenNoManagerId(sessionUser, input) ==
  \/ AssertSelfEmployeeThrows(sessionUser, input.id)
  \/ Has(input, "status")
  \/ Has(input, "departmentIds")

\* the guard of the non-admin branch of employees.update: TRUE when it throws
\* FORBIDDEN
EmployeesUpdateForbidden(sessionUser, input) ==
  \/ AssertSelfEmployeeThrows(sessionUser, input.id)
  \/ Has(input, "status")
  \/ Has(input, "departmentIds")
  \/ Has(input, "managerId")

\* mutant: the uniqueness lookups are made also for the employee's own email
EmployeesUpdateCodeOwnEmailTaken(ctx, input) ==
  LET sessionUser == GetSessionUser(ctx)
      isAdmin == IsHRAdmin(sessionUser.role)
      nextEmail == NextEmail(input)
  IN IF ~EmployeesUpdateInputValid(input) THEN "BAD_REQUEST"
     ELSE IF input.id \notin DOMAIN employee THEN "NOT_FOUND"
     ELSE IF ~isAdmin /\ EmployeesUpdateForbidden(sessionUser, input) THEN "FORBIDDEN"
     ELSE IF nextEmail # Undefined /\ nextEmail # <<>> /\ EmailTaken(nextEmail)
          THEN "CONFLICT"
     ELSE IF /\ isAdmin
             /\ Has(input, "departmentIds")
             /\ Len(input.departmentIds) > 0
             /\ DepartmentCount(input.departmentIds) # Len(input.departmentIds)
          THEN "BAD_REQUEST"
     ELSE IF isAdmin /\ Has(input, "managerId") /\ ~ManagerFkOk(input.managerId)
          THEN "INTERNAL_SERVER_ERROR"
     ELSE IF /\ nextEmail # Undefined
             /\ nextEmail # <<>>
             /\ employee[input.id].userId # NULL
             /\ \/ employee[input.id].userId \notin DOMAIN user
                \/ \E u \in DOMAIN user :
                     u # employee[input.id].userId /\ user[u].email = nextEmail
          THEN "INTERNAL_SERVER_ERROR"
     ELSE "OK"

\* employees.update: the outcome code
EmployeesUpdateCode(ctx, input) ==
  LET sessionUser == GetSessionUser(ctx)
      isAdmin == IsHRAdmin(sessionUser.role)
      nextEmail == NextEmail(input)
  IN IF ~EmployeesUpdateInputValid(input) THEN "BAD_REQUEST"
     ELSE IF input.id \notin DOMAIN employee THEN "NOT_FOUND"
     ELSE IF ~isAdmin /\ EmployeesUpdateForbidden(sessionUser, input) THEN "FORBIDDEN"
     ELSE IF /\ nextEmail # Undefined
             /\ nextEmail # <<>>
             /\ nextEmail # employee[input.id].email
             /\ EmailTaken(nextEmail)
          THEN "CONFLICT"
     ELSE IF /\ isAdmin
             /\ Has(input, "departmentIds")
             /\ Len(input.departmentIds) > 0
             /\ DepartmentCount(input.departmentIds) # Len(input.departmentIds)
          THEN "BAD_REQUEST"
     \* inside $transaction: a constraint failure rolls everything back
     ELSE IF isAdmin /\ Has(input, "managerId") /\ ~ManagerFkOk(input.managerId)
          THEN "INTERNAL_SERVER_ERROR"
     ELSE IF /\ nextEmail # Undefined
             /\ nextEmail # <<>>
             /\ employee[input.id].userId # NULL
             /\ \/ employee[input.id].userId \notin DOMAIN user
                \/ \E u \in DOMAIN user :
                     u # employee[input.id].userId /\ user[u].email = nextEmail
          THEN "INTERNAL_SERVER_ERROR"
     ELSE "OK"

\* the columns tx.employee.update writes: data fields that are not undefined
EmployeesUpdateData(isAdmin, input) ==
  LET fields == {f \in {"firstName", "lastName", "telephone", "email"} : Has(input, f)}
                \cup {f \in {"status", "managerId"} : isAdmin /\ Has(input, f)}
  IN [f \in fields |-> IF f = "email" THEN ToLowerCase(input.email) ELSE input[f]]

\* row r with the columns of data written over it
Merge(r, data) == [f \in DOMAIN r |-> IF f \in DOMAIN data THEN data[f] ELSE r[f]]

\* mutant: the rows sent are added and deleteMany is left out
AddMemberships(id, departmentIds) ==
  employeeDepartment \cup {<<id, d>> : d \in Range(departmentIds)}

\* tx.employeeDepartment.deleteMany({ employeeId }) followed by createMany of
\* the rows sent
ReplaceMemberships(id, departmentIds) ==
  {m \in employeeDepartment : m[1] # id}
  \cup {<<id, d>> : d \in Range(departmentIds)}

\* employees.update
EmployeesUpdate(ctx, input) ==
  /\ resp = NoResp
  /\ UNCHANGED pending
  /\ LET code == EmployeesUpdateCode(ctx, input)
         isAdmin == IsHRAdmin(GetSessionUser(ctx).role)
         nextEmail == NextEmail(input)
         userId == employee[input.id].userId
     IN IF code = "OK"
        THEN /\ steps > 0
             /\ employee' = [employee EXCEPT
                               ![input.id] = Merge(@, EmployeesUpdateData(isAdmin, input))]
             /\ user' = IF nextEmail # Undefined /\ nextEmail # <<>> /\ userId # NULL
                        THEN [user EXCEPT ![userId].email = nextEmail]
                        ELSE user
             /\ employeeDepartment' =
                  IF isAdmin /\ Has(input, "departmentIds")
                  THEN ReplaceMemberships(input.id, input.departmentIds)
                  ELSE employeeDepartment
             /\ steps' = steps - 1
             /\ resp' = Respond("employees.update", ctx, input, code, <<input.id>>)
             /\ UNCHANGED <<department, departmentSeq>>
        ELSE /\ resp' = Respond("employees.update", ctx, input, code, <<>>)
             /\ UNCHANGED <<store, steps>>

\* employees.deactivate: the outcome code
EmployeesDeactivateCode(ctx, input) ==
  IF AssertHRAdminThrows(GetSessionUser(ctx).role) THEN "FORBIDDEN"
  \* db.employee.update on a missing row throws (record not found)
  ELSE IF input.id \notin DOMAIN employee THEN "INTERNAL_SERVER_ERROR"
  ELSE "OK"

\* employees.deactivate
EmployeesDeactivate(ctx, input) ==
  /\ resp = NoResp
  /\ UNCHANGED pending
  /\ LET code == EmployeesDeactivateCode(ctx, input)
     IN IF code = "OK"
        THEN /\ steps > 0
             /\ employee' = [employee EXCEPT ![input.id].status = INACTIVE]
             /\ steps' = steps - 1
             /\ resp' = Respond("employees.deactivate", ctx, input, code, <<input.id>>)
             /\ UNCHANGED <<user, department, employeeDepartment, departmentSeq>>
        ELSE /\ resp' = Respond("employees.deactivate", ctx, input, code, <<>>)
             /\ UNCHANGED <<store, steps>>

\* payloads of employees.create
EmployeeCreateInputs ==
  LET base == [firstName |-> Eve, lastName |-> LnEmployee, telephone |-> Tel1]
  IN { base @@ [email |-> <<"n","@">>],
       base @@ [email |-> <<"N","@">>, status |-> INACTIVE],
       base @@ [email |-> <<"M","@">>],
       base @@ [email |-> <<"H","@">>],
       base @@ [email |-> <<"n","@">>, managerId |-> 1, departmentIds |-> <<1>>],
       base @@ [email |-> <<"n","@">>, departmentIds |-> <<1, 1>>],
       base @@ [email |-> <<"N","@">>, departmentIds |-> <<1>>],
       base @@ [email |-> <<"n","@">>, departmentIds |-> <<BogusDept>>],
       base @@ [email |-> <<"M","@">>, departmentIds |-> <<BogusDept>>],
       base @@ [email |-> <<"n","@">>, managerId |-> BogusEmp],
       base @@ [email |-> <<"n">>] }

\* payloads of employees.update, without the id
EmployeeUpdatePayloads ==
  { [telephone |-> Tel0],
    [firstName |-> Eve],
    [email |-> <<"N","@">>],
    [email |-> <<"E","@">>],
    [lastName |-> <<>>],
    [status |-> INACTIVE],
    [telephone |-> Tel0, status |-> ACTIVE],
    [managerId |-> NULL],
    [managerId |-> 1],
    [telephone |-> Tel0, managerId |-> BogusEmp],
    [departmentIds |-> <<>>],
    [departmentIds |-> <<2>>],
    [telephone |-> Tel0, departmentIds |-> <<1, BogusDept>>],
    [lastName |-> LnEmployee, email |-> Employee1Email] }

\* ---------------------------------------------------- departments router
RECURSIVE DepartmentMatches(_, _)
DepartmentMatches(w, d) ==
  CASE w.k = "all" -> TRUE
    [] w.k = "id" -> d = w.v
    [] w.k = "managerId" -> department[d].managerId = w.v
    [] w.k = "employeesSome" -> <<w.v, d>> \in employeeDepartment
    [] w.k = "nameContains" -> Contains(department[d].name, w.v)
    [] w.k = "statusIn" -> department[d].status \in w.v
    [] w.k = "AND" -> \A i \in 1..Len(w.v) : DepartmentMatches(w.v[i], d)

\* mutant: the MANAGER branch does not test for a missing employeeId
DepartmentsBuildAccessWhereNoNullCheck(ctx) ==
  LET sessionUser == GetSessionUser(ctx)
  IN IF IsHRAdmin(sessionUser.role) THEN W("all", {})
     ELSE IF IsManager(sessionUser.role)
     THEN W("managerId", sessionUser.employeeId)
     ELSE IF IsEmployee(sessionUser.role)
     THEN IF sessionUser.employeeId = NULL
          THEN W("id", NONE)
          ELSE W("employeesSome", sessionUser.employeeId)
     ELSE W("id", NONE)

\* buildAccessWhere of the departments router
DepartmentsBuildAccessWhere(ctx) ==
  LET sessionUser == GetSessionUser(ctx)
  IN IF IsHRAdmin(sessionUser.role) THEN W("all", {})
     ELSE IF IsManager(sessionUser.role)
     THEN IF sessionUser.employeeId = NULL
          THEN W("id", NONE)
          ELSE W("managerId", sessionUser.employeeId)
     ELSE IF IsEmployee(sessionUser.role)
     THEN IF sessionUser.employeeId = NULL
          THEN W("id", NONE)
          ELSE W("employeesSome", sessionUser.employeeId)
     ELSE W("id", NONE)

\* applyFilters of the departments router
DepartmentsApplyFilters(baseWhere, filters) ==
  IF filters = Undefined THEN baseWhere
  ELSE
    LET and ==
          (IF Has(filters, "name") /\ filters.name # <<>>
           THEN <<W("nameContains", filters.name)>> ELSE <<>>)
          \o (IF Has(filters, "status") /\ Len(filters.status) > 0
              THEN <<W("statusIn", Range(filters.status))>> ELSE <<>>)
          \o (IF Has(filters, "managerId") /\ filters.managerId # NULL
              THEN <<W("managerId", filters.managerId)>> ELSE <<>>)
    IN IF Len(and) = 0 THEN baseWhere
       ELSE W("AND", <<baseWhere>> \o and)

\* buildOrderBy of the departments router
DepartmentsBuildOrderBy(sort) ==
  IF sort # Undefined THEN <<sort>>
  ELSE <<[field |-> "name", direction |-> "asc"]>>

\* db.department.findMany({ where }) as a set of ids
DepartmentFindMany(where) == {d \in DOMAIN department : DepartmentMatches(where, d)}

DepartmentFilters ==
  { [x \in {} |-> NULL],
    [name |-> <<"n","g">>],
    [status |-> <<ACTIVE>>, name |-> <<>>],
    [managerId |-> 1] }

DepartmentListInputs ==
  { [x \in {} |-> NULL] }
  \cup { [filters |-> f] : f \in DepartmentFilters }
  \cup { [sort |-> [field |-> "createdAt", direction |-> "desc"]] }

\* departments.list
DepartmentsList(ctx, input) ==
  /\ resp = NoResp
  /\ UNCHANGED pending
  /\ LET baseWhere == DepartmentsBuildAccessWhere(ctx)
         where == DepartmentsApplyFilters(baseWhere, InputFilters(input))
         orderBy == DepartmentsBuildOrderBy(InputSort(input))
     IN \E rows \in Orderings("department", DepartmentFindMany(where), orderBy) :
          resp' = Respond("departments.list", ctx, input, "OK", rows)
  /\ UNCHANGED <<store, steps>>

\* departments.getById
DepartmentsGetById(ctx, input) ==
  /\ resp = NoResp
  /\ UNCHANGED pending
  /\ LET baseWhere == DepartmentsBuildAccessWhere(ctx)
         found == DepartmentFindMany(W("AND", <<baseWhere, W("id", input.id)>>))
     IN resp' = IF found = {}
                THEN Respond("departments.getById", ctx, input, "NOT_FOUND", <<>>)
                ELSE Respond("departments.getById", ctx, input, "OK", <<input.id>>)
  /\ UNCHANGED <<store, steps>>

\* ------------------------------------------------ departments mutations
\* zod createInputSchema / updateInputSchema (departments)
DepartmentsInputValid(input) ==
  /\ NonEmpty(input, "name")
  /\ Has(input, "status") => input.status \in EmployeeStatus

\* db.department.findUnique({ where: { name } }): found
NameTaken(name) == \E d \in DOMAIN department : department[d].name = name

\* the login account linked to employee e (Employee.user), as a set
UserOf(e) == {u \in DOMAIN user : user[u].employeeId = e}

\* mutant: the manager's account is left as it is
PromoteManagerNever(managerId) == user

\* "if manager has a user, ensure role is MANAGER": the User table afterwards
PromoteManager(managerId) ==
  [u \in DOMAIN user |->
     IF u \in UserOf(managerId) /\ user[u].role # MANAGER
     THEN [user[u] EXCEPT !.role = MANAGER]
     ELSE user[u]]

\* input.managerId is truthy: sent, not null
ManagerSent(input) == Has(input, "managerId") /\ input.managerId # NULL

\* departments.create: the outcome code
DepartmentsCreateCode(ctx, input) ==
  LET sessionUser == GetSessionUser(ctx)
      name == Trim(input.name)
  IN IF ~DepartmentsInputValid(input) THEN "BAD_REQUEST"
     ELSE IF AssertHRAdminThrows(sessionUser.role) THEN "FORBIDDEN"
     ELSE IF NameTaken(name) THEN "CONFLICT"
     ELSE IF ManagerSent(input) /\ input.managerId \notin DOMAIN employee
          THEN "BAD_REQUEST"
     ELSE "OK"

\* departments.create; the promotion of the manager's account is a write of its
\* own, made before db.department.create and kept when that insert is refused.
\* writeOk is FALSE when the store refuses the insert: a concurrent request took
\* the name after the findUnique (Department_name_key), or a storage error
DepartmentsCreate(ctx, input, writeOk) ==
  /\ resp = NoResp
  /\ UNCHANGED pending
  /\ LET code == DepartmentsCreateCode(ctx, input)
         id == departmentSeq + 1
         promoted == IF ManagerSent(input) THEN PromoteManager(input.managerId) ELSE user
     IN IF code # "OK"
        THEN /\ resp' = Respond("departments.create", ctx, input, code, <<>>)
             /\ UNCHANGED <<store, steps>>
        ELSE /\ steps > 0
             /\ user' = promoted
             /\ steps' = steps - 1
             /\ UNCHANGED <<employee, employeeDepartment>>
             /\ IF writeOk
                THEN /\ id \in DeptIds
                     /\ department' = department @@
                          (id :> [name |-> Trim(input.name),
                                  status |-> IF Has(input, "status")
                                             THEN input.status ELSE ACTIVE,
                                  managerId |-> IF Has(input, "managerId")
                                                THEN input.managerId ELSE NULL])
                     /\ departmentSeq' = id
                     /\ resp' = Respond("departments.create", ctx, input, "OK", <<id>>)
                ELSE /\ UNCHANGED <<department, departmentSeq>>
                     /\ resp' = Respond("departments.create", ctx, input,
                                        "INTERNAL_SERVER_ERROR", <<>>)

\* input.name?.trim(): Undefined when the field was not sent
NextName(input) == IF Has(input, "name") THEN Trim(input.name) ELSE Undefined

\* the checks of departments.update before any write: the code they throw,
\* "OK" when they pass
DepartmentsUpdateChecks(ctx, input) ==
  LET sessionUser == GetSessionUser(ctx)
      nextName == NextName(input)
  IN IF ~DepartmentsInputValid(input) THEN "BAD_REQUEST"
     ELSE IF AssertHRAdminThrows(sessionUser.role) THEN "FORBIDDEN"
     ELSE IF input.id \notin DOMAIN department THEN "NOT_FOUND"
     ELSE IF /\ nextName # Undefined
             /\ nextName # <<>>
             /\ nextName # department[input.id].name
             /\ NameTaken(nextName)
          THEN "CONFLICT"
     ELSE IF ManagerSent(input) /\ input.managerId \notin DOMAIN employee
          THEN "BAD_REQUEST"
     ELSE "OK"

\* Department_name_key refuses the final db.department.update
DepartmentsUpdateNameClash(input) ==
  /\ Has(input, "name")
  /\ \E d \in DOMAIN department : d # input.id /\ department[d].name = Trim(input.name)

\* the columns db.department.update writes
DepartmentsUpdateData(input) ==
  LET fields == {f \in {"name", "status", "managerId"} : Has(input, f)}
  IN [f \in fields |-> IF f = "name" THEN Trim(input.name) ELSE input[f]]

\* departments.update; the promotion of the manager's account is a write of its
\* own, made before db.department.update and kept when that update throws:
\* on Department_name_key, or when the store fails the write (writeOk FALSE)
DepartmentsUpdate(ctx, input, writeOk) ==
  /\ resp = NoResp
  /\ UNCHANGED pending
  /\ LET checks == DepartmentsUpdateChecks(ctx, input)
         promoted == IF ManagerSent(input) THEN PromoteManager(input.managerId) ELSE user
     IN IF checks # "OK"
        THEN /\ resp' = Respond("departments.update", ctx, input, checks, <<>>)
             /\ UNCHANGED <<store, steps>>
        ELSE /\ steps > 0
             /\ user' = promoted
             /\ steps' = steps - 1
             /\ UNCHANGED <<employee, employeeDepartment, departmentSeq>>
             /\ IF DepartmentsUpdateNameClash(input) \/ ~writeOk
                THEN /\ department' = department
                     /\ resp' = Respond("departments.update", ctx, input,
                                        "INTERNAL_SERVER_ERROR", <<>>)
                ELSE /\ department' = [department EXCEPT
                                         ![input.id] = Merge(@, DepartmentsUpdateData(input))]
                     /\ resp' = Respond("departments.update", ctx, input, "OK", <<input.id>>)

\* mutant: the membership count is not looked at
DepartmentsDeleteCodeNoCount(ctx, input) ==
  IF AssertHRAdminThrows(GetSessionUser(ctx).role) THEN "FORBIDDEN"
  ELSE IF input.id \notin DOMAIN department THEN "NOT_FOUND"
  ELSE "OK"

\* departments.delete: the outcome code
DepartmentsDeleteCode(ctx, input) ==
  IF AssertHRAdminThrows(GetSessionUser(ctx).role) THEN "FORBIDDEN"
  ELSE IF input.id \notin DOMAIN department THEN "NOT_FOUND"
  ELSE IF Cardinality({m \in employeeDepartment : m[2] = input.id}) > 0
       THEN "BAD_REQUEST"
  ELSE "OK"

\* departments.delete; EmployeeDepartment rows of the department go with it
\* (ON DELETE CASCADE)
DepartmentsDelete(ctx, input) ==
  /\ resp = NoResp
  /\ UNCHANGED pending
  /\ LET code == DepartmentsDeleteCode(ctx, input)
     IN IF code = "OK"
        THEN /\ steps > 0
             /\ department' = [d \in DOMAIN department \ {input.id} |-> department[d]]
             /\ employeeDepartment' = {m \in employeeDepartment : m[2] # input.id}
             /\ steps' = steps - 1
             /\ resp' = Respond("departments.delete", ctx, input, code, <<input.id>>)
             /\ UNCHANGED <<employee, user, departmentSeq>>
        ELSE /\ resp' = Respond("departments.delete", ctx, input, code, <<>>)
             /\ UNCHANGED <<store, steps>>

\* payloads of departments.create
DepartmentCreateInputs ==
  { [name |-> <<"H","R">>],
    [name |-> <<" ","O","p","s"," ">>, status |-> INACTIVE],
    [name |-> <<"H","R">>, managerId |-> 2],
    [name |-> <<"H","R">>, managerId |-> BogusEmp],
    [name |-> <<" ">>],
    [name |-> <<>>] }

\* payloads of departments.update, without the id
DepartmentUpdatePayloads ==
  { [name |-> Operations],
    [name |-> <<" ">>],
    [status |-> INACTIVE],
    [managerId |-> NULL],
    [managerId |-> 4],
    [name |-> Engineering, managerId |-> 2],
    [name |-> <<" ">>, managerId |-> 4],
    [managerId |-> BogusEmp] }

\* the caller receives the response; the next call can start
Deliver ==
  /\ resp # NoResp
  /\ resp' = NoResp
  /\ UNCHANGED <<store, steps, pending>>

\* calls are made one after the other, by any session with any of the inputs:
\* a call starts when no response is in flight
Next ==
  \/ resp = NoResp /\ \E ctx \in Sessions, input \in EmployeeListInputs :
       EmployeesList(ctx, input)
  \/ resp = NoResp /\ \E ctx \in Sessions, id \in EmpIds \cup {BogusEmp} :
       EmployeesGetById(ctx, [id |-> id])
  \/ resp = NoResp /\ \E ctx \in Sessions, input \in EmployeeCreateInputs,
                          txOk \in BOOLEAN :
       EmployeesCreate(ctx, input, txOk)
  \/ resp = NoResp /\ \E ctx \in Sessions, id \in EmpIds, p \in EmployeeUpdatePayloads :
       EmployeesUpdate(ctx, [id |-> id] @@ p)
  \/ resp = NoResp /\ \E ctx \in Sessions, id \in EmpIds :
       EmployeesDeactivate(ctx, [id |-> id])
  \/ resp = NoResp /\ \E ctx \in Sessions, input \in DepartmentListInputs :
       DepartmentsList(ctx, input)
  \/ resp = NoResp /\ \E ctx \in Sessions, id \in DeptIds :
       DepartmentsGetById(ctx, [id |-> id])
  \/ resp = NoResp /\ \E ctx \in Sessions, input \in DepartmentCreateInputs,
                          writeOk \in BOOLEAN :
       DepartmentsCreate(ctx, input, writeOk)
  \/ resp = NoResp /\ \E ctx \in Sessions, id \in DeptIds, p \in DepartmentUpdatePayloads,
                          writeOk \in BOOLEAN :
       DepartmentsUpdate(ctx, [id |-> id] @@ p, writeOk)
  \/ resp = NoResp /\ \E ctx \in Sessions, id \in DeptIds :
       DepartmentsDelete(ctx, [id |-> id])
  \/ Deliver

Spec == Init /\ [][Next]_vars

\* ------------------------------------------- the administrator's writes
\* the session of the seeded HRADMIN account, which has no employee
HrAdminSession == [role |-> HRADMIN, employeeId |-> NULL]

InitAdmin ==
  /\ SeedInit \/ FixturesInit
  /\ resp = NoResp
  /\ steps = MaxAdminSteps
  /\ pending = EmptyFn

\* the mutations, called one after the other by the administrator: the runs in
\* which several writes follow each other
NextAdmin ==
  \/ resp = NoResp /\ \E input \in EmployeeCreateInputs, txOk \in BOOLEAN :
       EmployeesCreate(HrAdminSession, input, txOk)
  \/ resp = NoResp /\ \E id \in EmpIds, p \in EmployeeUpdatePayloads :
       EmployeesUpdate(HrAdminSession, [id |-> id] @@ p)
  \/ resp = NoResp /\ \E id \in EmpIds :
       EmployeesDeactivate(HrAdminSession, [id |-> id])
  \/ resp = NoResp /\ \E input \in DepartmentCreateInputs, writeOk \in BOOLEAN :
       DepartmentsCreate(HrAdminSession, input, writeOk)
  \/ resp = NoResp /\ \E id \in DeptIds, p \in DepartmentUpdatePayloads,
                          writeOk \in BOOLEAN :
       DepartmentsUpdate(HrAdminSession, [id |-> id] @@ p, writeOk)
  \/ resp = NoResp /\ \E id \in DeptIds :
       DepartmentsDelete(HrAdminSession, [id |-> id])
  \/ Deliver

SpecAdmin == InitAdmin /\ [][NextAdmin]_vars

\* ------------------------------------------- the writers of employee records
\* the sessions of the accounts linked to an employee
LinkedSessions == [role : {MANAGER, EMPLOYEE}, employeeId : EmpIds]

InitEmployees ==
  /\ SeedInit \/ FixturesInit
  /\ resp = NoResp
  /\ steps = MaxEmployeeSteps
  /\ pending = EmptyFn

\* employees are created by the administrator and updated by the administrator
\* or from a session linked to an employee, one call after the other
NextEmployees ==
  \/ resp = NoResp /\ \E input \in EmployeeCreateInputs, txOk \in BOOLEAN :
       EmployeesCreate(HrAdminSession, input, txOk)
  \/ resp = NoResp /\ \E ctx \in {HrAdminSession} \cup LinkedSessions,
                          id \in EmpIds, p \in EmployeeUpdatePayloads :
       EmployeesUpdate(ctx, [id |-> id] @@ p)
  \/ Deliver

SpecEmployees == InitEmployees /\ [][NextEmployees]_vars

\* ------------------------------------------------- requests that overlap
\* Two requests of the administrator are served at the same time. A handler
\* awaits each query, so another request's statements can run between its
\* checks and its write; the steps below are the checks of a handler as one
\* step and its write (a $transaction, or the one statement) as another.
Requests == 1..MaxRequests

\* request r is between its checks and its write
Waiting(r, op) == r \in DOMAIN pending /\ pending[r].op = op

Without(r) == [q \in DOMAIN pending \ {r} |-> pending[q]]

\* employees.create up to the $transaction: the lookups and the count. The
\* manager reference is tested here too: no employee is ever deleted, so it
\* resolves in the transaction exactly when it resolves now
EmployeesCreateChecks(r, ctx, input) ==
  /\ resp = NoResp
  /\ r \notin DOMAIN pending
  /\ LET code == EmployeesCreateCode(ctx, input)
     IN IF code = "OK"
        THEN /\ pending' = pending @@
                  (r :> [op |-> "employees.create", session |-> ctx, input |-> input])
             /\ UNCHANGED <<store, steps, resp>>
        ELSE /\ resp' = Respond("employees.create", ctx, input, code, <<>>)
             /\ UNCHANGED <<store, steps, pending>>

\* a statement of the $transaction of employees.create is refused by the store
\* as it is now: User_email_key or Employee_email_key, or the foreign key of a
\* membership whose department is gone
CreateRefused(input) ==
  \/ EmailTaken(ToLowerCase(input.email))
  \/ /\ Has(input, "departmentIds")
     /\ \E d \in Range(input.departmentIds) : d \notin DOMAIN department

\* the $transaction of employees.create, run against the store as it is when
\* the transaction starts; a refused statement, or a failure of the store (txOk
\* FALSE), rolls it back and the error reaches the caller as it is thrown
EmployeesCreateTransaction(r, txOk) ==
  /\ resp = NoResp
  /\ Waiting(r, "employees.create")
  /\ pending' = Without(r)
  /\ LET ctx == pending[r].session
         input == pending[r].input
         email == ToLowerCase(input.email)
         uid == NextUserId
         eid == NextEmployeeId
     IN IF CreateRefused(input) \/ ~txOk
        THEN /\ resp' = Respond("employees.create", ctx, input,
                                "INTERNAL_SERVER_ERROR", <<>>)
             /\ UNCHANGED <<store, steps>>
        ELSE /\ steps > 0
             /\ eid \in EmpIds
             /\ user' = user @@ (uid :> CreatedUser(email, eid))
             /\ employee' = employee @@
                  (eid :> [firstName |-> input.firstName,
                           lastName |-> input.lastName,
                           telephone |-> input.telephone,
                           email |-> email,
                           status |-> IF Has(input, "status") THEN input.status ELSE ACTIVE,
                           managerId |-> IF Has(input, "managerId")
                                         THEN input.managerId ELSE NULL,
                           userId |-> uid])
             /\ employeeDepartment' = employeeDepartment \cup
                  (IF Has(input, "departmentIds")
                   THEN {<<eid, d>> : d \in Range(input.departmentIds)}
                   ELSE {})
             /\ steps' = steps - 1
             /\ resp' = Respond("employees.create", ctx, input, "OK", <<eid>>)
             /\ UNCHANGED <<department, departmentSeq>>

\* departments.delete up to db.department.delete: the findUnique with the
\* membership count
DepartmentsDeleteChecks(r, ctx, input) ==
  /\ resp = NoResp
  /\ r \notin DOMAIN pending
  /\ LET code == DepartmentsDeleteCode(ctx, input)
     IN IF code = "OK"
        THEN /\ pending' = pending @@
                  (r :> [op |-> "departments.delete", session |-> ctx, input |-> input])
             /\ UNCHANGED <<store, steps, resp>>
        ELSE /\ resp' = Respond("departments.delete", ctx, input, code, <<>>)
             /\ UNCHANGED <<store, steps, pending>>

\* db.department.delete({ where: { id } }) of departments.delete, run against
\* the store as it is now: the rows of EmployeeDepartment that name the
\* department go with it (ON DELETE CASCADE); a department that is gone makes
\* the statement throw
DepartmentsDeleteStatement(r) ==
  /\ resp = NoResp
  /\ Waiting(r, "departments.delete")
  /\ pending' = Without(r)
  /\ LET ctx == pending[r].session
         input == pending[r].input
     IN IF input.id \notin DOMAIN department
        THEN /\ resp' = Respond("departments.delete", ctx, input,
                                "INTERNAL_SERVER_ERROR", <<>>)
             /\ UNCHANGED <<store, steps>>
        ELSE /\ steps > 0
             /\ department' = [d \in DOMAIN department \ {input.id} |-> department[d]]
             /\ employeeDepartment' = {m \in employeeDepartment : m[2] # input.id}
             /\ steps' = steps - 1
             /\ resp' = Respond("departments.delete", ctx, input, "OK", <<input.id>>)
             /\ UNCHANGED <<employee, user, departmentSeq>>

\* payloads of the overlapping employees.create requests: one email in two
\* spellings, with and without a membership
RaceCreateInputs ==
  {input \in EmployeeCreateInputs :
     /\ ToLowerCase(input.email) = <<"n","@">>
     /\ ~Has(input, "managerId")}

\* payloads of the employees.update that runs between the steps of a request
RaceUpdatePayloads ==
  {p \in EmployeeUpdatePayloads : DOMAIN p = {"departmentIds"}}

InitRace ==
  /\ SeedInit \/ FixturesInit
  /\ resp = NoResp
  /\ steps = MaxRaceSteps
  /\ pending = EmptyFn

NextRace ==
  \/ \E r \in Requests, input \in RaceCreateInputs :
       EmployeesCreateChecks(r, HrAdminSession, input)
  \/ \E r \in Requests, txOk \in BOOLEAN :
       EmployeesCreateTransaction(r, txOk)
  \/ \E r \in Requests, id \in DeptIds :
       DepartmentsDeleteChecks(r, HrAdminSession, [id |-> id])
  \/ \E r \in Requests :
       DepartmentsDeleteStatement(r)
  \/ resp = NoResp /\ \E id \in EmpIds, p \in RaceUpdatePayloads :
       EmployeesUpdate(HrAdminSession, [id |-> id] @@ p)
  \/ resp = NoResp /\ \E input \in DepartmentCreateInputs, writeOk \in BOOLEAN :
       DepartmentsCreate(HrAdminSession, input, writeOk)
  \/ Deliver

SpecRace == InitRace /\ [][NextRace]_vars

\* ================================================================ claims
\* what a call was about
IsCall(op) == resp.op = op
NoFilters(input) == ~Has(input, "filters")
NonAdmin(ctx) == ctx.role # HRADMIN

\* employees.list() / departments.list() without input, as sets of ids
EmployeesListAll(ctx) ==
  EmployeeFindMany(EmployeesListWhere(ctx, [x \in {} |-> NULL]))
DepartmentsListAll(ctx) ==
  DepartmentFindMany(
    DepartmentsApplyFilters(DepartmentsBuildAccessWhere(ctx), Undefined))

\* C1: the rows employees.list or departments.list returns for any filters are
\* among the rows the same session gets from the same store without filters:
\* a filter narrows the RBAC scope and never widens it.
C1_FiltersOnlyNarrow ==
  /\ IsCall("employees.list") =>
       Range(resp.rows) \subseteq EmployeesListAll(resp.session)
  /\ IsCall("departments.list") =>
       Range(resp.rows) \subseteq DepartmentsListAll(resp.session)

\* a manager's filtered list that is non-empty and strictly smaller than the
\* unfiltered one
C1_Witness ==
  /\ IsCall("employees.list")
  /\ resp.session.role = MANAGER
  /\ Has(resp.input, "filters")
  /\ resp.rows # <<>>
  /\ Range(resp.rows) # EmployeesListAll(resp.session)

\* C2: employees.list by an EMPLOYEE session linked to employee E returns only
\* rows with id E, whatever the filters and sort; without a linked employee the
\* call succeeds and returns no rows.
C2_EmployeeListsSelfOnly ==
  (IsCall("employees.list") /\ resp.session.role = EMPLOYEE) =>
     /\ resp.code = "OK"
     /\ \A i \in 1..Len(resp.rows) : resp.rows[i] = resp.session.employeeId
     /\ resp.session.employeeId = NULL => resp.rows = <<>>

\* an employee lists with a sort and gets exactly their own row
C2_Witness ==
  /\ IsCall("employees.list")
  /\ resp.session.role = EMPLOYEE
  /\ resp.session.employeeId = 2
  /\ Has(resp.input, "sort")
  /\ resp.rows = <<2>>
  /\ Cardinality(DOMAIN employee) > 1

\* C3: employees.getById by an EMPLOYEE session linked to E fails with
\* FORBIDDEN and returns nothing for every id other than E, existing or not;
\* getById(E) succeeds when E exists.
C3_EmployeeGetsSelfOnly ==
  (/\ IsCall("employees.getById")
   /\ resp.session.role = EMPLOYEE
   /\ resp.session.employeeId # NULL) =>
     /\ resp.input.id # resp.session.employeeId =>
          resp.code = "FORBIDDEN" /\ resp.rows = <<>>
     /\ (resp.input.id = resp.session.employeeId /\ resp.input.id \in DOMAIN employee) =>
          resp.code = "OK" /\ resp.rows = <<resp.input.id>>

\* an employee asks for an id that no employee has and is refused
C3_Witness ==
  /\ IsCall("employees.getById")
  /\ resp.session.role = EMPLOYEE
  /\ resp.session.employeeId \in DOMAIN employee
  /\ resp.input.id \notin DOMAIN employee
  /\ resp.code = "FORBIDDEN"

\* the employees in the scope the spec gives manager M
DirectReports(M) == {e \in DOMAIN employee : employee[e].managerId = M}
ManagedDepartments(M) == {d \in DOMAIN department : department[d].managerId = M}
MembersOf(D) == {e \in DOMAIN employee : \E d \in D : <<e, d>> \in employeeDepartment}
ManagerScope(M) ==
  ({M} \cap DOMAIN employee) \cup DirectReports(M) \cup MembersOf(ManagedDepartments(M))

C5_ManagerGetOutOfScope ==
  (/\ IsCall("employees.getById")
   /\ resp.session.role = MANAGER
   /\ resp.session.employeeId # NULL
   /\ resp.input.id \notin ManagerScope(resp.session.employeeId)
   /\ resp.input.id # resp.session.employeeId) =>
     resp.code # "OK" /\ resp.rows = <<>>

\* a manager who manages a department asks for an existing employee who is a
\* member of another department only
C5_Witness ==
  /\ IsCall("employees.getById")
  /\ resp.session.role = MANAGER
  /\ ManagedDepartments(resp.session.employeeId) # {}
  /\ resp.input.id \in DOMAIN employee
  /\ resp.input.id \notin ManagerScope(resp.session.employeeId)
  /\ \E d \in DOMAIN department : <<resp.input.id, d>> \in employeeDepartment
  /\ resp.code = "FORBIDDEN"

\* C6 (as claimed): for a role that is none of HRADMIN, MANAGER, EMPLOYEE,
\* employees.list returns no rows and employees.getById returns no employee.
C6_UnknownRoleDenied ==
  (resp.op \in {"employees.list", "employees.getById"}
   /\ resp.session.role \notin {HRADMIN, MANAGER, EMPLOYEE}) =>
     resp.rows = <<>>

\* C7 (as claimed): a session that is not HRADMIN and has no employeeId gets
\* zero rows, and no error, from employees.list and departments.list.
C7_IncompleteSessionDenied ==
  (resp.op \in {"employees.list", "departments.list"}
   /\ NonAdmin(resp.session)
   /\ resp.session.employeeId = NULL) =>
     resp.code = "OK" /\ resp.rows = <<>>

\* C8: departments.list() without filters returns, each once: for EMPLOYEE E the
\* departments E is a member of, for MANAGER M the departments whose managerId
\* is M, for HRADMIN every department, and none for any other role or for a
\* non-admin session without employeeId.
C8_DepartmentListScope ==
  (IsCall("departments.list") /\ NoFilters(resp.input)) =>
     LET role == resp.session.role
         id == resp.session.employeeId
         expected ==
           IF role = HRADMIN THEN DOMAIN department
           ELSE IF id = NULL THEN {}
           ELSE IF role = EMPLOYEE
                THEN {d \in DOMAIN department : <<id, d>> \in employeeDepartment}
           ELSE IF role = MANAGER THEN ManagedDepartments(id)
           ELSE {}
     IN /\ resp.code = "OK"
        /\ Range(resp.rows) = expected
        /\ Len(resp.rows) = Cardinality(expected)

\* an employee who is a member of some department but not of all of them
C8_Witness ==
  /\ IsCall("departments.list")
  /\ NoFilters(resp.input)
  /\ resp.session.role = EMPLOYEE
  /\ resp.rows # <<>>
  /\ Range(resp.rows) # DOMAIN department

\* a payload that names one of the fields only HRADMIN may set
Privileged(input) ==
  Has(input, "status") \/ Has(input, "managerId") \/ Has(input, "departmentIds")

\* the step is an employees.update call by a non-admin session with a payload
\* the schema accepts
NonAdminUpdate ==
  /\ resp'.op = "employees.update"
  /\ NonAdmin(resp'.session)
  /\ EmployeesUpdateInputValid(resp'.input)

C10_UpdateOthersForbidden ==
  [][(/\ NonAdminUpdate
      /\ resp'.input.id \in DOMAIN employee
      /\ resp'.input.id # resp'.session.employeeId) =>
       (resp'.code = "FORBIDDEN" /\ UNCHANGED store)]_vars

\* a manager sends only a telephone for a direct report and is refused
C10_Witness ==
  /\ IsCall("employees.update")
  /\ resp.session.role = MANAGER
  /\ resp.session.employeeId \in DOMAIN employee
  /\ resp.input.id \in DirectReports(resp.session.employeeId)
  /\ resp.input.id # resp.session.employeeId
  /\ ~Privileged(resp.input)
  /\ Has(resp.input, "telephone")
  /\ resp.code = "FORBIDDEN"

\* the operations only HRADMIN may call
AdminOnlyOps ==
  {"employees.create", "employees.deactivate",
   "departments.create", "departments.update", "departments.delete"}

\* the payload of the call passes the zod schema of its procedure
SchemaValid(op, input) ==
  CASE op = "employees.create" -> EmployeesCreateInputValid(input)
    [] op = "employees.update" -> EmployeesUpdateInputValid(input)
    [] op \in {"departments.create", "departments.update"} -> DepartmentsInputValid(input)
    [] OTHER -> TRUE

\* C11: each administrator-only operation (employees.create, employees.deactivate,
\* departments.create, departments.update, departments.delete), called with a
\* payload its schema accepts by a session whose role is not HRADMIN, fails with
\* FORBIDDEN and leaves employees, departments, memberships and accounts as
\* they were.
C11_AdminOnlyForbidden ==
  [][(/\ resp'.op \in AdminOnlyOps
      /\ NonAdmin(resp'.session)
      /\ SchemaValid(resp'.op, resp'.input)) =>
       (resp'.code = "FORBIDDEN" /\ UNCHANGED store)]_vars

\* a manager tries to deactivate an active direct report and is refused
C11_Witness ==
  /\ IsCall("employees.deactivate")
  /\ resp.session.role = MANAGER
  /\ resp.session.employeeId \in DOMAIN employee
  /\ resp.input.id \in DirectReports(resp.session.employeeId)
  /\ employee[resp.input.id].status = ACTIVE
  /\ resp.code = "FORBIDDEN"

\* every employee has its login account and every account that names an
\* employee is the account of that employee
LinkedOneToOne ==
  /\ \A e \in DOMAIN employee :
       /\ employee[e].userId \in DOMAIN user
       /\ user[employee[e].userId].employeeId = e
  /\ \A u \in DOMAIN user :
       user[u].employeeId # NULL =>
         /\ user[u].employeeId \in DOMAIN employee
         /\ employee[user[u].employeeId].userId = u

\* what an employees.create step may do to the accounts and the employees:
\* nothing at all, or one new account with role EMPLOYEE and one new employee,
\* linked to each other
CreateAllOrNothing ==
  \/ resp'.code # "OK" /\ UNCHANGED store
  \/ /\ resp'.code = "OK"
     /\ \E u \in DOMAIN user' \ DOMAIN user, e \in DOMAIN employee' \ DOMAIN employee :
          /\ DOMAIN user' = DOMAIN user \cup {u}
          /\ DOMAIN employee' = DOMAIN employee \cup {e}
          /\ user'[u].role = EMPLOYEE
          /\ user'[u].employeeId = e
          /\ employee'[e].userId = u

\* C12: through any sequence of successful and failed employees.create calls,
\* employees and the login accounts made for them stay linked one-to-one in both
\* directions; a create either persists nothing or persists one account with role
\* EMPLOYEE together with its employee.
C12_AccountEmployeePaired ==
  /\ []LinkedOneToOne
  /\ [][resp'.op = "employees.create" => CreateAllOrNothing]_vars

\* a second employee has just been created in a store that had only the seeded
\* administrator account
C12_Witness ==
  /\ IsCall("employees.create")
  /\ resp.code = "OK"
  /\ Cardinality(DOMAIN employee) = 2
  /\ Cardinality(DOMAIN user) = 3
  /\ \A e \in DOMAIN employee : employee[e].firstName = Eve

\* the email is, letter case aside, the email of an employee or of an account
EmailInUse(email) ==
  \/ \E e \in DOMAIN employee : ToLowerCase(employee[e].email) = ToLowerCase(email)
  \/ \E u \in DOMAIN user : ToLowerCase(user[u].email) = ToLowerCase(email)

\* no two employees and no two accounts carry the same email, letter case aside
EmailsUnique ==
  /\ \A a, b \in DOMAIN employee :
       a < b => ToLowerCase(employee[a].email) # ToLowerCase(employee[b].email)
  /\ \A a, b \in DOMAIN user :
       a < b => ToLowerCase(user[a].email) # ToLowerCase(user[b].email)

\* C13: employees.create by HRADMIN with an email that, letter case aside, is the
\* email of an existing employee or of an existing login account fails with
\* CONFLICT and persists nothing; so no two employees and no two accounts ever
\* carry the same email.
C13_DuplicateEmailConflict ==
  /\ []EmailsUnique
  /\ [][(/\ resp'.op = "employees.create"
         /\ resp'.session.role = HRADMIN
         /\ EmployeesCreateInputValid(resp'.input)
         /\ EmailInUse(resp'.input.email)) =>
          (resp'.code = "CONFLICT" /\ UNCHANGED store)]_vars

\* the second of two creates with the same email, sent in capitals, is refused:
\* one employee and one account carry the email
C13_Witness ==
  /\ IsCall("employees.create")
  /\ resp.code = "CONFLICT"
  /\ resp.input.email = <<"N","@">>
  /\ Cardinality({e \in DOMAIN employee : employee[e].email = <<"n","@">>}) = 1
  /\ Cardinality({u \in DOMAIN user : user[u].email = <<"n","@">>}) = 1

\* C14: departments.delete by HRADMIN on a department with one or more
\* memberships fails with BAD_REQUEST and leaves the department and every
\* membership in place; on a department without memberships it succeeds and
\* removes the department, and only that.
C14_DeleteNeedsEmptyDepartment ==
  [][(/\ resp'.op = "departments.delete"
      /\ resp'.session.role = HRADMIN
      /\ resp'.input.id \in DOMAIN department) =>
       IF \E m \in employeeDepartment : m[2] = resp'.input.id
       THEN resp'.code = "BAD_REQUEST" /\ UNCHANGED store
       ELSE /\ resp'.code = "OK"
            /\ DOMAIN department' = DOMAIN department \ {resp'.input.id}
            /\ \A d \in DOMAIN department' : department'[d] = department[d]
            /\ UNCHANGED <<employee, user, employeeDepartment>>]_vars

\* Engineering of the fixtures, which had two members, has been deleted after
\* two employee updates took its memberships away
C14_Witness ==
  /\ IsCall("departments.delete")
  /\ resp.code = "OK"
  /\ resp.input.id = 1
  /\ DOMAIN employee = 1..4
  /\ DOMAIN department = {2}
  /\ steps = 0

\* the step is a departments.create or departments.update call by HRADMIN that
\* sends a managerId other than null
ManagerAssignment ==
  /\ resp'.op \in {"departments.create", "departments.update"}
  /\ resp'.session.role = HRADMIN
  /\ Has(resp'.input, "managerId")
  /\ resp'.input.managerId # NULL

\* the checks that come before the manager lookup pass: the payload is valid,
\* the department to update exists, no other department has the trimmed name
BeforeManagerLookupOk ==
  /\ DepartmentsInputValid(resp'.input)
  /\ resp'.op = "departments.update" => resp'.input.id \in DOMAIN department
  /\ Has(resp'.input, "name") =>
       ~\E d \in DOMAIN department :
          /\ department[d].name = Trim(resp'.input.name)
          /\ resp'.op = "departments.update" => d # resp'.input.id

\* C15: after a successful departments.create or departments.update by HRADMIN
\* with a managerId e other than null, the department's managerId is e and every
\* login account linked to employee e has role MANAGER; when the account already
\* was MANAGER the accounts are not touched (repeating the call keeps MANAGER).
\* When e is no existing employee the call fails and writes nothing, with
\* BAD_REQUEST when the checks before the manager lookup pass.
C15_ManagerPromotion ==
  [][ManagerAssignment =>
       LET e == resp'.input.managerId
       IN /\ resp'.code = "OK" =>
               /\ department'[resp'.rows[1]].managerId = e
               /\ \A u \in DOMAIN user' :
                    user'[u].employeeId = e => user'[u].role = MANAGER
               /\ (\A u \in DOMAIN user : user[u].employeeId = e => user[u].role = MANAGER)
                    => user' = user
          /\ e \notin DOMAIN employee =>
               /\ resp'.code # "OK"
               /\ UNCHANGED store
               /\ BeforeManagerLookupOk => resp'.code = "BAD_REQUEST"]_vars

\* the first write on the fixtures store makes Olly, whose account was an
\* EMPLOYEE account, manager of Operations: the account is now MANAGER
C15_Witness ==
  /\ IsCall("departments.update")
  /\ resp.code = "OK"
  /\ resp.input = [id |-> 2, managerId |-> 4]
  /\ DOMAIN user = 1..5
  /\ user[5].employeeId = 4
  /\ user[5].role = MANAGER
  /\ department[2].managerId = 4
  /\ steps = MaxAdminSteps - 1

\* C16 (as claimed): whenever departments.create or departments.update does not
\* persist its department row, whatever the error, that call has changed no
\* login account's role.
C16_PromotionAtomic ==
  [][(/\ resp'.op \in {"departments.create", "departments.update"}
      /\ resp'.code # "OK") =>
       (/\ department' = department
        /\ \A u \in DOMAIN user : user'[u].role = user[u].role)]_vars

\* C17 (as claimed): no employee has its own id as managerId, and every managerId
\* other than null is the id of an existing employee.
C17_ManagerRefsSound ==
  \A e \in DOMAIN employee :
    /\ employee[e].managerId # e
    /\ employee[e].managerId # NULL => employee[e].managerId \in DOMAIN employee

\* the step is an employees.create or employees.update call by HRADMIN whose
\* departmentIds hold an id that is no department
UnknownDepartmentSent ==
  /\ resp'.op \in {"employees.create", "employees.update"}
  /\ resp'.session.role = HRADMIN
  /\ Has(resp'.input, "departmentIds")
  /\ \E i \in 1..Len(resp'.input.departmentIds) :
       resp'.input.departmentIds[i] \notin DOMAIN department

\* the checks that come before the department count pass: the payload is valid,
\* the employee to update exists, the email is free or the employee's own
BeforeDepartmentCountOk ==
  /\ SchemaValid(resp'.op, resp'.input)
  /\ resp'.op = "employees.create" => ~EmailInUse(resp'.input.email)
  /\ resp'.op = "employees.update" =>
       /\ resp'.input.id \in DOMAIN employee
       /\ Has(resp'.input, "email") =>
            \/ ToLowerCase(resp'.input.email) = employee[resp'.input.id].email
            \/ ~EmailInUse(resp'.input.email)

\* C18: employees.create and employees.update by HRADMIN with departmentIds that
\* hold an id of no existing department fail and leave the store unchanged (no
\* account, employee or membership is created, no membership is deleted); the
\* code is BAD_REQUEST when the checks before the department count pass.
C18_UnknownDepartmentRejected ==
  [][UnknownDepartmentSent =>
       /\ resp'.code # "OK"
       /\ UNCHANGED store
       /\ BeforeDepartmentCountOk => resp'.code = "BAD_REQUEST"]_vars

\* an update of an employee with memberships names Engineering and an unknown
\* department: refused, and the memberships are still there
C18_Witness ==
  /\ IsCall("employees.update")
  /\ resp.session.role = HRADMIN
  /\ resp.code = "BAD_REQUEST"
  /\ Has(resp.input, "departmentIds")
  /\ BogusDept \in Range(resp.input.departmentIds)
  /\ \E d \in DOMAIN department :
       d \in Range(resp.input.departmentIds) /\ <<resp.input.id, d>> \in employeeDepartment
  /\ \E d \in DOMAIN department :
       d \notin Range(resp.input.departmentIds) /\ <<resp.input.id, d>> \in employeeDepartment

\* no two departments have the same name
NamesUnique ==
  \A a, b \in DOMAIN department : a < b => department[a].name # department[b].name

\* the step is a departments.create, or a departments.update that changes the
\* name, by HRADMIN, with a valid payload whose trimmed name another department
\* already has
TakenNameSent ==
  /\ resp'.op \in {"departments.create", "departments.update"}
  /\ resp'.session.role = HRADMIN
  /\ DepartmentsInputValid(resp'.input)
  /\ Has(resp'.input, "name")
  /\ resp'.op = "departments.update" =>
       /\ resp'.input.id \in DOMAIN department
       /\ department[resp'.input.id].name # Trim(resp'.input.name)
  /\ \E d \in DOMAIN department :
       /\ department[d].name = Trim(resp'.input.name)
       /\ resp'.op = "departments.update" => d # resp'.input.id

\* C19 (as claimed): no two departments ever have the same name: a create, or an
\* update that changes the name, to a trimmed name another department already
\* has fails with CONFLICT and changes nothing.
C19_DepartmentNameConflict ==
  /\ []NamesUnique
  /\ [][TakenNameSent => (resp'.code = "CONFLICT" /\ UNCHANGED store)]_vars

\* the departments employee e is a member of, in a membership table
DepartmentsOf(memberships, e) == {m[2] : m \in {x \in memberships : x[1] = e}}

\* C20: after a successful employees.update by HRADMIN with departmentIds S the
\* employee's departments are exactly those of S (none for the empty list) and
\* no other employee's memberships have changed; without departmentIds in the
\* payload no membership changes.
C20_MembershipsReplaced ==
  [][(/\ resp'.op = "employees.update"
      /\ resp'.session.role = HRADMIN
      /\ resp'.code = "OK") =>
       IF Has(resp'.input, "departmentIds")
       THEN /\ DepartmentsOf(employeeDepartment', resp'.input.id)
                 = Range(resp'.input.departmentIds)
            /\ \A e \in DOMAIN employee \ {resp'.input.id} :
                 DepartmentsOf(employeeDepartment', e) = DepartmentsOf(employeeDepartment, e)
            /\ \A m \in employeeDepartment' : m[1] \in DOMAIN employee
       ELSE employeeDepartment' = employeeDepartment]_vars

\* the first write on the fixtures store gives Ed, a member of Engineering and
\* Operations, the empty list: Ed is in no department, the others are where
\* they were
C20_Witness ==
  /\ IsCall("employees.update")
  /\ resp.session.role = HRADMIN
  /\ resp.code = "OK"
  /\ resp.input = [id |-> 3, departmentIds |-> <<>>]
  /\ DOMAIN employee = 1..4
  /\ steps = MaxAdminSteps - 1
  /\ employeeDepartment = {<<2, 1>>, <<4, 2>>}

\* the login account of every employee that has one carries the employee's
\* email, which is in lower case
EmailsInSync ==
  \A e \in DOMAIN employee :
    employee[e].userId # NULL =>
      /\ employee[e].userId \in DOMAIN user
      /\ user[employee[e].userId].email = employee[e].email
      /\ employee[e].email = ToLowerCase(employee[e].email)

\* the step is an employees.update call with an email, for an existing employee,
\* by HRADMIN or from the employee's own session with no field the session may
\* not set
AuthorizedEmailUpdate ==
  /\ resp'.op = "employees.update"
  /\ EmployeesUpdateInputValid(resp'.input)
  /\ resp'.input.id \in DOMAIN employee
  /\ Has(resp'.input, "email")
  /\ \/ resp'.session.role = HRADMIN
     \/ resp'.session.employeeId = resp'.input.id /\ ~Privileged(resp'.input)

\* the email is the email of another employee, or of an account other than the
\* employee's own
EmailOfAnother(id, email) ==
  \/ \E e \in DOMAIN employee \ {id} : employee[e].email = ToLowerCase(email)
  \/ \E u \in DOMAIN user \ {employee[id].userId} : user[u].email = ToLowerCase(email)

\* C21: in every state reached by create and update calls each employee with a
\* linked login account has the same lower-case email as that account; an
\* authorized employees.update with an email used by another employee or account
\* fails with CONFLICT and leaves the store unchanged, and any other one, when it
\* succeeds, writes the lower-cased email to the employee and to its account.
C21_EmailPropagates ==
  /\ []EmailsInSync
  /\ [][AuthorizedEmailUpdate =>
          LET id == resp'.input.id
              email == ToLowerCase(resp'.input.email)
          IN IF EmailOfAnother(id, resp'.input.email)
             THEN resp'.code = "CONFLICT" /\ UNCHANGED store
             ELSE resp'.code = "OK" =>
                    /\ employee'[id].email = email
                    /\ user'[employee[id].userId].email = email]_vars

\* the first write on the fixtures store: Eve, from her own session, changes her
\* email, sent in capitals; her account carries the new email too
C21_Witness ==
  /\ IsCall("employees.update")
  /\ resp.code = "OK"
  /\ resp.session = [role |-> EMPLOYEE, employeeId |-> 2]
  /\ resp.input = [id |-> 2, email |-> <<"N","@">>]
  /\ DOMAIN employee = 1..4
  /\ steps = MaxEmployeeSteps - 1
  /\ employee[2].email = <<"n","@">>
  /\ user[3].email = <<"n","@">>

\* what employees.update({ id, status: INACTIVE }) by the same session answers
\* and writes in the state the call starts in
UpdateToInactive(id) == [id |-> id, status |-> INACTIVE]

\* C22 (as claimed): employees.deactivate(id) by HRADMIN gives the outcome and
\* the store that employees.update({id, status: INACTIVE}) by HRADMIN gives from
\* the same state, for an existing id and for an id no employee has (the same
\* error code, NOT_FOUND).
C22_DeactivateIsUpdate ==
  [][(resp'.op = "employees.deactivate" /\ resp'.session.role = HRADMIN) =>
       LET input == UpdateToInactive(resp'.input.id)
           code == EmployeesUpdateCode(resp'.session, input)
       IN /\ resp'.code = code
          /\ IF code = "OK"
             THEN /\ employee' = [employee EXCEPT
                                    ![input.id] = Merge(@, EmployeesUpdateData(TRUE, input))]
                  /\ UNCHANGED <<user, department, employeeDepartment, departmentSeq>>
             ELSE UNCHANGED store]_vars

\* the employees a session may read: all for HRADMIN, the own record for an
\* EMPLOYEE, self, reports and members of managed departments for a MANAGER,
\* none for any other session
ReadScope(ctx) ==
  IF ctx.role = HRADMIN THEN DOMAIN employee
  ELSE IF ctx.employeeId = NULL THEN {}
  ELSE IF ctx.role = EMPLOYEE THEN {ctx.employeeId} \cap DOMAIN employee
  ELSE IF ctx.role = MANAGER THEN ManagerScope(ctx.employeeId)
  ELSE {}

\* C23 (as claimed): employees.getById by a non-admin session for an existing
\* employee outside the session's scope answers what it answers, in the same
\* store, for an id that no employee has: the error code does not tell an
\* out-of-scope record from a missing one.
C23_GetByIdHidesExistence ==
  (/\ IsCall("employees.getById")
   /\ NonAdmin(resp.session)
   /\ resp.input.id \in DOMAIN employee
   /\ resp.input.id \notin ReadScope(resp.session)) =>
     resp.code = EmployeesGetByIdCode(resp.session, [id |-> BogusEmp])

\* the fields a session may set on its own employee
AllowedFields == {"firstName", "lastName", "telephone", "email"}

\* the allowed fields of the payload have, in table emp, the values the payload
\* gives them (an email as the router stores it, in lower case)
HasSentValues(emp, input) ==
  \A f \in AllowedFields \cap DOMAIN input :
    emp[input.id][f] = IF f = "email" THEN ToLowerCase(input.email) ELSE input[f]

\* the step is an employees.update call for an existing employee, by HRADMIN or
\* from the employee's own session, whose payload names allowed fields only, one
\* at least
AllowedFieldsUpdate ==
  /\ resp'.op = "employees.update"
  /\ EmployeesUpdateInputValid(resp'.input)
  /\ resp'.input.id \in DOMAIN employee
  /\ DOMAIN resp'.input \subseteq AllowedFields \cup {"id"}
  /\ DOMAIN resp'.input # {"id"}
  /\ \/ resp'.session.role = HRADMIN
     \/ resp'.session.employeeId = resp'.input.id

Min(a, b) == IF a < b THEN a ELSE b

\* page number page, of pageSize rows, of the sequence full
PageOf(full, page, pageSize) ==
  SubSeq(full, (page - 1) * pageSize + 1, Min(page * pageSize, Len(full)))

\* C25 (as claimed): employees.list and departments.list by HRADMIN without
\* filters cover the whole table; and employees.list called with page and
\* pageSize returns only the rows of that page, a slice of the filtered, sorted
\* result, so that the pages, one after the other, give that result without gaps
\* or duplicates.
C25_ListPaged ==
  /\ (IsCall("employees.list") /\ resp.session.role = HRADMIN /\ NoFilters(resp.input)
      /\ ~Has(resp.input, "pageSize")) =>
       Range(resp.rows) = DOMAIN employee
  /\ (IsCall("departments.list") /\ resp.session.role = HRADMIN /\ NoFilters(resp.input)) =>
       Range(resp.rows) = DOMAIN department
  /\ (IsCall("employees.list") /\ Has(resp.input, "pageSize")) =>
       \E full \in Orderings("employee",
                             EmployeeFindMany(EmployeesListWhere(resp.session, resp.input)),
                             EmployeesBuildOrderBy(InputSort(resp.input))) :
         resp.rows = PageOf(full, resp.input.page, resp.input.pageSize)

\* C26 (as claimed): for a MANAGER session linked to M, every employee that
\* employees.list() without filters returns to the session, a direct report of
\* M in no department M manages included, is fetched by employees.getById
\* without FORBIDDEN.
C26_ManagerListGetAgree ==
  (/\ IsCall("employees.getById")
   /\ resp.session.role = MANAGER
   /\ resp.session.employeeId # NULL
   /\ resp.input.id \in EmployeesListAll(resp.session)) =>
     resp.code # "FORBIDDEN"

\* the step is an employees.create or employees.update call by HRADMIN, with a
\* payload the schema accepts, whose departmentIds all are existing departments
KnownDepartmentsSent ==
  /\ resp'.op \in {"employees.create", "employees.update"}
  /\ resp'.session.role = HRADMIN
  /\ SchemaValid(resp'.op, resp'.input)
  /\ Has(resp'.input, "departmentIds")
  /\ \A i \in 1..Len(resp'.input.departmentIds) :
       resp'.input.departmentIds[i] \in DOMAIN department

\* C29 (as claimed): employees.create and employees.update by HRADMIN whose
\* departmentIds all are existing departments, an id repeated or not, are not
\* refused with BAD_REQUEST, and when they succeed the employee is a member of
\* each department of the list, once.
C29_RepeatedDepartmentAccepted ==
  [][KnownDepartmentsSent =>
       /\ resp'.code # "BAD_REQUEST"
       /\ resp'.code = "OK" =>
            DepartmentsOf(employeeDepartment', resp'.rows[1])
              = Range(resp'.input.departmentIds)]_vars

\* every department has a name of one character at least
NamesNonEmpty == \A d \in DOMAIN department : department[d].name # <<>>

\* the step is a departments.create or departments.update call by HRADMIN, for
\* an existing department when it is an update, with a name that is empty once
\* the white space around it is taken away
BlankNameSent ==
  /\ resp'.op \in {"departments.create", "departments.update"}
  /\ resp'.session.role = HRADMIN
  /\ resp'.op = "departments.update" => resp'.input.id \in DOMAIN department
  /\ Has(resp'.input, "name")
  /\ Trim(resp'.input.name) = <<>>

\* C30 (as claimed): every department has a non-empty name in every state
\* reached by departments.create and departments.update: a create or update with
\* a name that is empty, or empty after trimming, fails with BAD_REQUEST and
\* writes nothing (a call the store itself fails aside).
C30_DepartmentNameNonEmpty ==
  /\ []NamesNonEmpty
  /\ [][(BlankNameSent /\ resp'.code # "INTERNAL_SERVER_ERROR") =>
          (resp'.code = "BAD_REQUEST" /\ UNCHANGED store)]_vars

\* the step runs the transaction of an employees.create request whose email,
\* letter case aside, has been taken since the request made its checks
CreateOvertaken ==
  /\ resp'.op = "employees.create"
  /\ \E r \in DOMAIN pending \ DOMAIN pending' :
       /\ pending[r].op = "employees.create"
       /\ EmailInUse(pending[r].input.email)

\* C27 (as claimed): of two employees.create requests with the same email that
\* overlap, in whatever order their checks and transactions run, one succeeds
\* and the other fails with CONFLICT and with no other error, and the store
\* holds one employee and one account with that email.
C27_ConcurrentCreateConflict ==
  /\ []EmailsUnique
  /\ [][CreateOvertaken => (resp'.code = "CONFLICT" /\ UNCHANGED store)]_vars

\* C28 (as claimed): departments.delete removes no membership, also when an
\* employees.create or employees.update that adds a membership in the
\* department runs between its count check and its delete statement: the delete
\* then fails, or the membership stays.
C28_DeleteKeepsMemberships ==
  [][resp'.op = "departments.delete" => employeeDepartment \subseteq employeeDepartment']_vars

====
